---- MODULE Spec2Model ----
(***************************************************************************)
(* A model of the video transcript search repository:                      *)
(*   - VideoSearchEngine (search_engine.py): the chunk list, the FAISS     *)
(*     inner-product index kept beside it, and the query operations;       *)
(*   - TranscriptProcessor.chunk_transcript (transcript_processor.py):     *)
(*     the greedy grouping of timed segments into chunks.                  *)
(*                                                                         *)
(* Python's None / Optional is modelled as a sequence of length 0 or 1:    *)
(* None == <<>>, Some(x) == <<x>>.  A vector is a sequence of integers     *)
(* (small integers are exact in float32).  A text is a sequence of         *)
(* one-character strings.                                                  *)
(***************************************************************************)
EXTENDS Integers, Sequences, FiniteSets, TLC

VARIABLES
    chunks,       \* VideoSearchEngine.chunks: list of TranscriptChunk
    index,        \* VideoSearchEngine.index: None or Some([d, vectors])
    dimension,    \* VideoSearchEngine.dimension: None or Some(d)
    last,         \* the call made last: its name and arguments
    result,       \* what that call returned, or the exception it raised
    segments,     \* chunk_transcript: the segments argument
    chunk_duration,      \* chunk_transcript: the chunk_duration argument
    pos,          \* chunk_transcript: number of segments the loop has consumed
    current_chunk_text,  \* chunk_transcript: local list of trimmed texts
    current_start_time,  \* chunk_transcript: local
    out,          \* chunk_transcript: local list `chunks`
    pc,           \* chunk_transcript: "idle", "loop", "last", "done"
    ts_seconds,   \* _format_timestamp: the seconds argument
    ts_formatted  \* _format_timestamp: None, or Some(the string returned)

engineVars == <<chunks, index, dimension, last, result>>
chunkerVars == <<segments, chunk_duration, pos, current_chunk_text,
                 current_start_time, out, pc>>
formatVars == <<ts_seconds, ts_formatted>>
vars == <<chunks, index, dimension, last, result, segments, chunk_duration,
          pos, current_chunk_text, current_start_time, out, pc, ts_seconds,
          ts_formatted>>

None == <<>>
Some(x) == <<x>>

----------------------------------------------------------------------------
(* Bounds and input sets *)

MaxChunks == 2      \* chunks ever held by the engine
MaxBatch == 2       \* chunks in one add_chunks call
MaxK == 2           \* largest top_k asked for

VideoIds == {"video_001", "video_002"}
\* where a chunk comes from: video, time range and text
Sources == { [video_id |-> "video_001", start_time |-> 0,  end_time |-> 30, text |-> <<"a">>],
             [video_id |-> "video_001", start_time |-> 30, end_time |-> 60, text |-> <<"b">>],
             [video_id |-> "video_002", start_time |-> 0,  end_time |-> 30, text |-> <<"a">>] }
\* embeddings a caller may hand over: none, two unit vectors of length 2,
\* and a vector of length 1 (another dimension)
Embeddings == { None, Some(<<1, 0>>), Some(<<0, 1>>), Some(<<1>>) }
\* the vectors the embedding model may return for a query text
Queries == { <<1, 0>>, <<0, 1>>, <<1>> }

ChunkInputs ==
    { [video_id |-> s.video_id, start_time |-> s.start_time,
       end_time |-> s.end_time, text |-> s.text, embedding |-> e] :
      s \in Sources, e \in Embeddings }

Min(a, b) == IF a < b THEN a ELSE b

----------------------------------------------------------------------------
(* Library behaviour the engine relies on *)

\* list[idx] of Python: a negative idx counts from the end
PyIndex(list, idx) ==
    IF idx >= 0 THEN list[idx + 1] ELSE list[Len(list) + idx + 1]

RECURSIVE DotUpTo(_, _, _)
DotUpTo(a, b, n) == IF n = 0 THEN 0 ELSE DotUpTo(a, b, n - 1) + a[n] * b[n]
\* inner product of two vectors of the same length
Dot(a, b) == DotUpTo(a, b, Len(a))

\* The score faiss writes in a result slot it could not fill (its label is
\* -1).  faiss writes -FLT_MAX (-3.4028235e38); this stands for it, below
\* every inner product of the vectors above.
NEG_FLT_MAX == -1000

\* np.array(list of vectors).astype('float32') succeeds only when the
\* vectors have one common length
Homogeneous(vs) == \A i, j \in 1..Len(vs) : Len(vs[i]) = Len(vs[j])

\* faiss.IndexFlatIP(d)
IndexFlatIP(d) == [d |-> d, vectors |-> <<>>]

\* an add that lets any row length through
FaissAddAcceptsAnyLength(ix, vs) == TRUE

\* Index.add(x): the Python wrapper asserts x.shape[1] == self.d
FaissAddAccepts(ix, vs) == Len(vs[1]) = ix.d

\* Index.add(x) once accepted: the rows are appended, in order
FaissAdd(ix, vs) == [ix EXCEPT !.vectors = @ \o vs]

\* Index.search(q, k) of IndexFlatIP: the k largest inner products in
\* non-increasing order, labels are 0-based positions; slots beyond ntotal
\* hold label -1 and score -FLT_MAX.  faiss does not document the order of
\* equal scores (it depends on the heap of the version in use), so every
\* order of equal scores is an outcome.
FaissSearch(ix, q, k) ==
    LET vs == ix.vectors
        n == Len(vs)
        m == Min(k, n)
        sc(i) == Dot(q, vs[i])
        picks == { p \in [1..m -> 1..n] :
                     /\ \A a, b \in 1..m : a # b => p[a] # p[b]
                     /\ \A a \in 1..(m - 1) : sc(p[a]) >= sc(p[a + 1])
                     /\ \A j \in 1..n :
                          (\A a \in 1..m : p[a] # j)
                             => \A a \in 1..m : sc(j) <= sc(p[a]) }
    IN { [j \in 1..k |->
            IF j <= m THEN [score |-> sc(p[j]), label |-> p[j] - 1]
                      ELSE [score |-> NEG_FLT_MAX, label |-> -1]] :
         p \in picks }

----------------------------------------------------------------------------
(* VideoSearchEngine *)

DigitChar(n) ==
    CASE n = 0 -> "0" [] n = 1 -> "1" [] n = 2 -> "2" [] n = 3 -> "3"
      [] n = 4 -> "4" [] n = 5 -> "5" [] n = 6 -> "6" [] n = 7 -> "7"
      [] n = 8 -> "8" [] n = 9 -> "9"

RECURSIVE Digits(_)
Digits(n) == IF n < 10 THEN <<DigitChar(n)>>
             ELSE Digits(n \div 10) \o <<DigitChar(n % 10)>>

\* a format without padding (format spec d)
Pad2Unpadded(n) == Digits(n)

\* format spec 02d: at least two digits, zero-padded
Pad2(n) == IF n < 10 THEN <<"0">> \o Digits(n) ELSE Digits(n)

_format_timestamp(seconds) ==
    LET minutes == seconds \div 60
        secs == seconds % 60
    IN Pad2(minutes) \o <<":">> \o Pad2(secs)

\* [chunk for chunk in cs if chunk.embedding is not None]
ValidChunks(cs) == SelectSeq(cs, LAMBDA c : c.embedding # None)

\* [chunk.embedding for chunk in valid]
EmbeddingsOf(valid) == [i \in 1..Len(valid) |-> valid[i].embedding[1]]

\* [chunk for chunk in self.chunks if chunk.video_id == video_id]
VideoChunks(cs, video_id) == SelectSeq(cs, LAMBDA c : c.video_id = video_id)

\* the dict built for one (score, idx) pair of a search
ResultRecord(chunk, score) ==
    [video_id |-> chunk.video_id,
     start_time |-> chunk.start_time,
     end_time |-> chunk.end_time,
     text |-> chunk.text,
     similarity_score |-> score,
     timestamp_formatted |-> _format_timestamp(chunk.start_time)]

\* the loop over zip(scores[0], indices[0]) looking chunks up in `list`
ResultsFrom(list, hits) ==
    [j \in 1..Len(hits) |-> ResultRecord(PyIndex(list, hits[j].label), hits[j].score)]

Returned(records) ==
    [status |-> "ok", records |-> records, summary |-> None, videos |-> <<>>]
Raised(exception) ==
    [status |-> exception, records |-> <<>>, summary |-> None, videos |-> <<>>]
Call(op, batch, video_id, query, top_k) ==
    [op |-> op, batch |-> batch, video_id |-> video_id, query |-> query,
     top_k |-> top_k]

\* an insertion that replaces the list instead of extending it
ExtendedReplacing(cs, batch) == batch

\* The list to extend self.chunks with
Extended(cs, batch) == cs \o batch

add_chunks(batch) ==
    LET valid == ValidChunks(batch)
        fresh == index = None /\ batch # <<>> /\ valid # <<>>
        dim1 == IF fresh THEN Some(Len(valid[1].embedding[1])) ELSE dimension
        ix1 == IF fresh THEN Some(IndexFlatIP(dim1[1])) ELSE index
    IN /\ chunks' = Extended(chunks, batch)
       /\ dimension' = dim1
       /\ IF batch # <<>> /\ valid # <<>>
          THEN LET vs == EmbeddingsOf(valid)
               IN IF ~Homogeneous(vs)
                  THEN index' = ix1 /\ result' = Raised("ValueError")
                  ELSE IF ~FaissAddAccepts(ix1[1], vs)
                  THEN index' = ix1 /\ result' = Raised("AssertionError")
                  ELSE /\ index' = Some(FaissAdd(ix1[1], vs))
                       /\ result' = Returned(<<>>)
          ELSE index' = ix1 /\ result' = Returned(<<>>)
       /\ last' = Call("add_chunks", batch, "", <<>>, 0)
       /\ UNCHANGED <<chunkerVars, formatVars>>

\* every value search(query, top_k) may return in the current state; q is
\* the vector the embedding model gives for the query text
SearchOutcomes(q, top_k) ==
    IF chunks = <<>> \/ index = None
    THEN { Returned(<<>>) }
    ELSE IF Len(q) # index[1].d
    THEN { Raised("AssertionError") }
    ELSE { Returned(ResultsFrom(chunks, hits)) :
           hits \in FaissSearch(index[1], q, top_k) }

search(q, top_k) ==
    /\ \E r \in SearchOutcomes(q, top_k) : result' = r
    /\ last' = Call("search", <<>>, "", q, top_k)
    /\ UNCHANGED <<chunks, index, dimension>>
    /\ UNCHANGED <<chunkerVars, formatVars>>

\* every value search_by_video(video_id, query, top_k) may return
SearchByVideoOutcomes(video_id, q, top_k) ==
    LET video_chunks == VideoChunks(chunks, video_id)
        valid == ValidChunks(video_chunks)
        vs == EmbeddingsOf(valid)
    IN IF video_chunks = <<>>
       THEN { Returned(<<>>) }
       ELSE IF dimension = None
       THEN { Raised("TypeError") }          \* faiss.IndexFlatIP(None)
       ELSE IF valid # <<>> /\ ~Homogeneous(vs)
       THEN { Raised("ValueError") }
       ELSE IF valid # <<>> /\ ~FaissAddAccepts(IndexFlatIP(dimension[1]), vs)
       THEN { Raised("AssertionError") }
       ELSE LET temp_index == IF valid # <<>>
                              THEN FaissAdd(IndexFlatIP(dimension[1]), vs)
                              ELSE IndexFlatIP(dimension[1])
            IN IF Len(q) # temp_index.d
               THEN { Raised("AssertionError") }
               ELSE { Returned(ResultsFrom(video_chunks, hits)) :
                      hits \in FaissSearch(temp_index, q, top_k) }

search_by_video(video_id, q, top_k) ==
    /\ \E r \in SearchByVideoOutcomes(video_id, q, top_k) : result' = r
    /\ last' = Call("search_by_video", <<>>, video_id, q, top_k)
    /\ UNCHANGED <<chunks, index, dimension>>
    /\ UNCHANGED <<chunkerVars, formatVars>>

\* a summary that takes the end of the video's last chunk for its duration
MaxEndTimeOfLast(cs) == cs[Len(cs)].end_time

RECURSIVE MaxEndTime(_)
\* max(chunk.end_time for chunk in cs), cs not empty
MaxEndTime(cs) ==
    IF Len(cs) = 1 THEN cs[1].end_time
    ELSE LET m == MaxEndTime(Tail(cs))
         IN IF cs[1].end_time >= m THEN cs[1].end_time ELSE m

VideoSummary(video_id) ==
    LET video_chunks == VideoChunks(chunks, video_id)
    IN IF video_chunks = <<>>
       THEN None
       ELSE Some([video_id |-> video_id,
                  total_duration |-> MaxEndTime(video_chunks),
                  chunk_count |-> Len(video_chunks),
                  duration_formatted |->
                      _format_timestamp(MaxEndTime(video_chunks))])

get_video_summary(video_id) ==
    /\ result' = [Returned(<<>>) EXCEPT !.summary = VideoSummary(video_id)]
    /\ last' = Call("get_video_summary", <<>>, video_id, <<>>, 0)
    /\ UNCHANGED <<chunks, index, dimension>>
    /\ UNCHANGED <<chunkerVars, formatVars>>

\* set(chunk.video_id for chunk in self.chunks)
VideoIdSet(cs) == { cs[i].video_id : i \in 1..Len(cs) }

\* list(s): the elements of s, each once, in an order Python does not fix
ListsOf(s) ==
    { l \in [1..Cardinality(s) -> s] : \A x \in s : \E i \in DOMAIN l : l[i] = x }

get_all_videos ==
    /\ \E l \in ListsOf(VideoIdSet(chunks)) :
          result' = [Returned(<<>>) EXCEPT !.videos = l]
    /\ last' = Call("get_all_videos", <<>>, "", <<>>, 0)
    /\ UNCHANGED <<chunks, index, dimension>>
    /\ UNCHANGED <<chunkerVars, formatVars>>

EngineInit ==
    /\ chunks = <<>>
    /\ index = None
    /\ dimension = None
    /\ last = Call("__init__", <<>>, "", <<>>, 0)
    /\ result = Returned(<<>>)

ChunkerIdle ==
    /\ segments = <<>>
    /\ chunk_duration = 0
    /\ pos = 0
    /\ current_chunk_text = <<>>
    /\ current_start_time = 0
    /\ out = <<>>
    /\ pc = "idle"

FormatIdle == ts_seconds = 0 /\ ts_formatted = None

Init == EngineInit /\ ChunkerIdle /\ FormatIdle

AddChunksCall ==
    \E n \in 0..Min(MaxBatch, MaxChunks - Len(chunks)) :
        \E batch \in [1..n -> ChunkInputs] : add_chunks(batch)

SearchCall == \E q \in Queries, k \in 1..MaxK : search(q, k)

SearchByVideoCall ==
    \E v \in VideoIds, q \in Queries, k \in 1..MaxK : search_by_video(v, q, k)

SummaryCall == \E v \in VideoIds : get_video_summary(v)

Next ==
    \/ AddChunksCall
    \/ SearchCall
    \/ SearchByVideoCall
    \/ SummaryCall
    \/ get_all_videos

Spec == Init /\ [][Next]_vars

(***************************************************************************)
(* The caller's side.  add_chunks extends self.chunks with the objects the *)
(* caller passed, so the engine and the caller hold the same objects;      *)
(* TranscriptProcessor.embed_chunks assigns the embedding field of every   *)
(* chunk of the list it is given.                                          *)
(***************************************************************************)
EmbeddingVectors == { e[1] : e \in Embeddings \ {None} }

\* embed_chunks on a list holding the object the engine stores at position
\* i; v is the vector the embedding model gives for the chunk's text.  The
\* engine is not called: its index and dimension stay as they are.
embed_chunks(i, v) ==
    /\ chunks' = [chunks EXCEPT ![i].embedding = Some(v)]
    /\ last' = Call("embed_chunks", <<chunks[i]>>, "", <<>>, 0)
    /\ UNCHANGED <<index, dimension, result>>
    /\ UNCHANGED <<chunkerVars, formatVars>>

EmbedChunksCall ==
    \E i \in 1..Len(chunks), v \in EmbeddingVectors : embed_chunks(i, v)

CallerNext ==
    \/ Next
    \/ EmbedChunksCall

SpecCaller == Init /\ [][CallerNext]_vars

----------------------------------------------------------------------------
(* TranscriptProcessor.chunk_transcript *)

MaxSegments == 3    \* segments in one transcript

SegmentTimes == {0, 1, 2}
\* raw segment texts, as the transcriber gives them (with blanks around)
RawTexts == { <<"a">>, <<" ", "b", " ">>, <<" ">> }
ChunkDurations == {1, 2}
SegmentInputs == [start : SegmentTimes, end : SegmentTimes, text : RawTexts]

RECURSIVE LStrip(_)
LStrip(t) == IF t # <<>> /\ Head(t) = " " THEN LStrip(Tail(t)) ELSE t
RECURSIVE RStrip(_)
RStrip(t) == IF t # <<>> /\ t[Len(t)] = " "
             THEN RStrip(SubSeq(t, 1, Len(t) - 1)) ELSE t
\* str.strip(): leading and trailing whitespace removed
Strip(t) == RStrip(LStrip(t))

RECURSIVE Join(_, _)
\* sep.join(list)
Join(sep, list) ==
    IF list = <<>> THEN <<>>
    ELSE IF Len(list) = 1 THEN list[1]
    ELSE list[1] \o sep \o Join(sep, Tail(list))

TranscriptChunk(video_id, start_time, end_time, text) ==
    [video_id |-> video_id, start_time |-> start_time, end_time |-> end_time,
     text |-> text, embedding |-> None]

\* the video_id argument of chunk_transcript
TranscriptVideoId == "video_001"

\* a test on the segment's own duration instead of the chunk's span
ExceedsDurationOfSegment(segment_end) ==
    /\ segment_end - segments[pos + 1].start > chunk_duration
    /\ current_chunk_text # <<>>

\* a test that forgets to look whether the current chunk holds anything
ExceedsDurationAlone(segment_end) ==
    segment_end - current_start_time > chunk_duration

\* the test that closes the current chunk before a segment
ExceedsDuration(segment_end) ==
    segment_end - current_start_time > chunk_duration /\ current_chunk_text # <<>>

\* a closed chunk ending at the end of its last buffered segment
ClosedEndTimeLastBuffered(segment) == segments[pos].end

\* end_time of a chunk closed before `segment`
ClosedEndTime(segment) == segment.start

\* a restart that forgets the segment that closed the chunk
RestartedTextEmpty(segment_text) == <<>>

\* current_chunk_text after a chunk was closed before a segment
RestartedText(segment_text) == <<segment_text>>

\* the state after the three assignments that open chunk_transcript
ChunkerInit ==
    /\ segments \in UNION { [1..n -> SegmentInputs] : n \in 0..MaxSegments }
    /\ chunk_duration \in ChunkDurations
    /\ pos = 0
    /\ out = <<>>
    /\ current_chunk_text = <<>>
    /\ current_start_time = IF segments # <<>> THEN segments[1].start ELSE 0
    /\ pc = "loop"

\* one iteration of `for segment in segments`
LoopStep ==
    /\ pc = "loop"
    /\ pos < Len(segments)
    /\ LET segment == segments[pos + 1]
           segment_start == segment.start
           segment_end == segment.end
           segment_text == Strip(segment.text)
       IN IF ExceedsDuration(segment_end)
          THEN /\ out' = Append(out, TranscriptChunk(TranscriptVideoId,
                                         current_start_time,
                                         ClosedEndTime(segment),
                                         Join(<<" ">>, current_chunk_text)))
               /\ current_chunk_text' = RestartedText(segment_text)
               /\ current_start_time' = segment_start
          ELSE /\ current_chunk_text' = Append(current_chunk_text, segment_text)
               /\ UNCHANGED <<out, current_start_time>>
    /\ pos' = pos + 1
    /\ UNCHANGED <<segments, chunk_duration, pc>>
    /\ UNCHANGED <<engineVars, formatVars>>

\* the code after the loop: the last chunk, then return
AddLastChunk ==
    /\ pc = "loop"
    /\ pos = Len(segments)
    /\ IF current_chunk_text # <<>>
       THEN out' = Append(out, TranscriptChunk(TranscriptVideoId,
                                   current_start_time,
                                   IF segments # <<>>
                                   THEN segments[Len(segments)].end ELSE 0,
                                   Join(<<" ">>, current_chunk_text)))
       ELSE out' = out
    /\ pc' = "done"
    /\ UNCHANGED <<segments, chunk_duration, pos, current_chunk_text,
                   current_start_time>>
    /\ UNCHANGED <<engineVars, formatVars>>

ChunkerNext == LoopStep \/ AddLastChunk

ChunkerStart == EngineInit /\ ChunkerInit /\ FormatIdle

SpecChunker == ChunkerStart /\ [][ChunkerNext]_vars

----------------------------------------------------------------------------
(* VideoSearchEngine._format_timestamp on its own *)

MaxSeconds == 6100    \* largest number of seconds formatted (over 100 minutes)

\* a call of _format_timestamp(seconds) that has not returned yet
FormatInit ==
    /\ ts_seconds \in 0..MaxSeconds
    /\ ts_formatted = None

format_timestamp ==
    /\ ts_formatted = None
    /\ ts_formatted' = Some(_format_timestamp(ts_seconds))
    /\ UNCHANGED ts_seconds
    /\ UNCHANGED <<engineVars, chunkerVars>>

FormatStart == EngineInit /\ ChunkerIdle /\ FormatInit

SpecFormat == FormatStart /\ [][format_timestamp]_vars

----------------------------------------------------------------------------
(* Properties *)

\* number of vectors in the engine's index (index.ntotal)
IndexSize == IF index = None THEN 0 ELSE Len(index[1].vectors)

SearchReturned ==
    last.op \in {"search", "search_by_video"} /\ result.status = "ok"

\* r carries the video, times and text of a chunk of the corpus whose
\* embedding gives r's score against query q
CarriesScoringChunk(r, q) ==
    \E i \in 1..Len(chunks) :
        /\ chunks[i].video_id = r.video_id
        /\ chunks[i].start_time = r.start_time
        /\ chunks[i].end_time = r.end_time
        /\ chunks[i].text = r.text
        /\ chunks[i].embedding # None
        /\ Len(chunks[i].embedding[1]) = Len(q)
        /\ Dot(q, chunks[i].embedding[1]) = r.similarity_score

\* C1: every record returned by search and search_by_video whose score is
\* an inner product with a stored vector carries the video_id, start_time,
\* end_time and text of the chunk that vector belongs to.
C1_ResultCarriesScoringChunk ==
    SearchReturned =>
        \A j \in 1..Len(result.records) :
            result.records[j].similarity_score # NEG_FLT_MAX
                => CarriesScoringChunk(result.records[j], last.query)

\* C2: in every reachable state the index holds as many vectors as the
\* corpus holds chunks with an embedding, and every stored vector has the
\* dimension D that was fixed first.
C2_IndexCountsEmbeddedChunks ==
    /\ IndexSize = Len(ValidChunks(chunks))
    /\ index # None =>
          /\ dimension = Some(index[1].d)
          /\ \A i \in 1..IndexSize : Len(index[1].vectors[i]) = index[1].d

\* C3: search(q, top_k) returns exactly min(top_k, corpus size) records
\* (corpus size read either as the number of indexed vectors or as the
\* number of chunks held).
C3_SearchReturnsMinOfKAndSize ==
    (last.op = "search" /\ result.status = "ok") =>
        \/ Len(result.records) = Min(last.top_k, IndexSize)
        \/ Len(result.records) = Min(last.top_k, Len(chunks))

\* the largest inner product of q with an embedding of the corpus
IsMaxScore(s, q) ==
    /\ \E i \in 1..Len(chunks) :
          /\ chunks[i].embedding # None
          /\ Len(chunks[i].embedding[1]) = Len(q)
          /\ Dot(q, chunks[i].embedding[1]) = s
    /\ \A i \in 1..Len(chunks) :
          (chunks[i].embedding # None /\ Len(chunks[i].embedding[1]) = Len(q))
              => Dot(q, chunks[i].embedding[1]) <= s

\* the query is the embedding of a chunk of the corpus and has norm 1
QueryIsStoredUnitVector(q) ==
    /\ Dot(q, q) = 1
    /\ \E i \in 1..Len(chunks) : chunks[i].embedding = Some(q)

\* C4: search returns its records by non-increasing score, the first one
\* being a chunk whose embedding has the largest inner product with the
\* query over the whole corpus; a query equal to a stored unit vector gets
\* a chunk with that vector first, with score 1.  (The order of equal
\* scores is decided inside faiss and is left out of this formula.)
C4_SearchRanksByInnerProduct ==
    (last.op = "search" /\ result.status = "ok" /\ result.records # <<>>) =>
        /\ \A j \in 1..(Len(result.records) - 1) :
              result.records[j].similarity_score
                  >= result.records[j + 1].similarity_score
        /\ CarriesScoringChunk(result.records[1], last.query)
        /\ IsMaxScore(result.records[1].similarity_score, last.query)
        /\ QueryIsStoredUnitVector(last.query) =>
              result.records[1].similarity_score = 1

\* the first k elements of a list
Prefix(list, k) == SubSeq(list, 1, Min(k, Len(list)))

\* C5: the records of search_by_video(video_id, q, k) all have that
\* video_id and are the first k records of search(q, K), K the corpus
\* size, filtered to that video_id; there are none when the video has no
\* chunks.
C5_ScopedSearchIsFilteredSearch ==
    (last.op = "search_by_video" /\ result.status = "ok") =>
        /\ \A j \in 1..Len(result.records) :
              result.records[j].video_id = last.video_id
        /\ VideoChunks(chunks, last.video_id) = <<>> => result.records = <<>>
        /\ VideoChunks(chunks, last.video_id) # <<>> =>
              \E s \in SearchOutcomes(last.query, Len(chunks)) :
                  /\ s.status = "ok"
                  /\ result.records =
                        Prefix(SelectSeq(s.records,
                                         LAMBDA r : r.video_id = last.video_id),
                               last.top_k)

\* C6: an add_chunks call whose batch holds an embedded chunk with a vector
\* length other than D raises, and no vector of a length other than D is
\* ever in the index.
C6_DimensionMismatchRaises ==
    /\ (/\ last.op = "add_chunks"
        /\ dimension # None
        /\ \E i \in 1..Len(last.batch) :
              /\ last.batch[i].embedding # None
              /\ Len(last.batch[i].embedding[1]) # dimension[1])
          => result.status # "ok"
    /\ \A i \in 1..IndexSize : Len(index[1].vectors[i]) = dimension[1]

\* C6 witness: with vectors already stored, a batch of another dimension
\* was refused
C6_Witness ==
    /\ last.op = "add_chunks"
    /\ result.status = "AssertionError"
    /\ IndexSize >= 1
    /\ \E i \in 1..Len(last.batch) :
          /\ last.batch[i].embedding # None
          /\ Len(last.batch[i].embedding[1]) # dimension[1]

\* C7: while no embedded chunk was ever inserted (no call, empty batches,
\* or chunks without an embedding only), search and search_by_video return
\* an empty list and raise nothing.
C7_EmptyIndexSearchesReturnEmpty ==
    (/\ last.op \in {"search", "search_by_video"}
     /\ \A i \in 1..Len(chunks) : chunks[i].embedding = None)
        => result = Returned(<<>>)

\* C8: a chunk without an embedding is not part of the corpus: no video is
\* listed by get_all_videos on its account, and get_video_summary does not
\* count it.
C8_UnembeddedChunksAreSkipped ==
    /\ last.op = "get_all_videos" =>
          \A j \in 1..Len(result.videos) :
              \E i \in 1..Len(chunks) :
                  /\ chunks[i].video_id = result.videos[j]
                  /\ chunks[i].embedding # None
    /\ (last.op = "get_video_summary" /\ result.summary # None) =>
          result.summary[1].chunk_count =
              Len(ValidChunks(VideoChunks(chunks, last.video_id)))

NonDecreasingStarts ==
    \A i \in 1..(Len(segments) - 1) : segments[i].start <= segments[i + 1].start

\* C9: for segments with non-decreasing starts the chunks are contiguous:
\* each chunk ends where the next starts (at the start of a segment), the
\* first chunk starts at the first segment's start and the last chunk ends
\* at the last segment's end.
C9_ChunksAreContiguous ==
    (pc = "done" /\ NonDecreasingStarts) =>
        /\ \A i \in 1..(Len(out) - 1) :
              /\ out[i].end_time = out[i + 1].start_time
              /\ \E j \in 2..Len(segments) : segments[j].start = out[i].end_time
        /\ segments # <<>> =>
              /\ out # <<>>
              /\ out[1].start_time = segments[1].start
              /\ out[Len(out)].end_time = segments[Len(segments)].end

\* C9 witness: a transcript with non-decreasing starts cut into three chunks
C9_Witness == pc = "done" /\ NonDecreasingStarts /\ Len(out) = 3

\* C10: the chunk texts joined by single blanks are the trimmed segment
\* texts joined by single blanks, and no segments give no chunks.
C10_TextIsPreserved ==
    pc = "done" =>
        /\ Join(<<" ">>, [i \in 1..Len(out) |-> out[i].text])
              = Join(<<" ">>, [i \in 1..Len(segments) |-> Strip(segments[i].text)])
        /\ segments = <<>> => out = <<>>

\* C10 witness: several chunks, one of them of several segments, from
\* texts that had to be trimmed
C10_Witness ==
    /\ pc = "done"
    /\ Len(out) = 2
    /\ Len(segments) = 3
    /\ \E i \in 1..Len(segments) : Strip(segments[i].text) # segments[i].text

\* positions of the list cs that hold a chunk of the video
PositionsOf(cs, video_id) == { i \in 1..Len(cs) : cs[i].video_id = video_id }

\* what C11 asks of a summary returned in a state
SummaryIsMaxAndCount ==
    last.op = "get_video_summary" =>
        LET mine == PositionsOf(chunks, last.video_id)
        IN IF mine = {}
           THEN result.status = "ok" /\ result.summary = None
           ELSE /\ result.status = "ok"
                /\ result.summary # None
                /\ result.summary[1].video_id = last.video_id
                /\ result.summary[1].chunk_count = Cardinality(mine)
                /\ \E i \in mine :
                      chunks[i].end_time = result.summary[1].total_duration
                /\ \A i \in mine :
                      chunks[i].end_time <= result.summary[1].total_duration

\* C11: get_video_summary reports the largest end_time and the number of
\* the chunks of the video that were inserted, every inserted chunk counted
\* (an add_chunks call adds one to the count per chunk of the video in its
\* batch, repeated chunks included), and returns the empty summary for a
\* video without chunks instead of raising.
C11_SummaryIsMaxEndTimeAndCount ==
    [][/\ SummaryIsMaxAndCount'
       /\ last'.op = "add_chunks" =>
             \A v \in VideoIds :
                 Cardinality(PositionsOf(chunks', v))
                     = Cardinality(PositionsOf(chunks, v))
                         + Cardinality(PositionsOf(last'.batch, v))]_vars

\* C11 witness: a chunk inserted after a chunk of the same video that ends
\* later, and the summary counts them all and reports the later end
C11_Witness ==
    /\ last.op = "get_video_summary"
    /\ result.summary # None
    /\ result.summary[1].chunk_count = Len(chunks)
    /\ Len(chunks) >= 2
    /\ chunks[1].end_time > chunks[2].end_time
    /\ result.summary[1].total_duration = chunks[1].end_time

\* the video ids of the chunks of a list
IdsIn(cs) == { v \in VideoIds : \E i \in 1..Len(cs) : cs[i].video_id = v }

\* C12: over add_chunks calls the length of get_all_videos() never
\* decreases: a call adds to it the number of distinct video ids of its
\* batch that were not known before (none for a batch of known videos);
\* and a list returned by get_all_videos holds each video id exactly once.
C12_VideoListGrowsByNewIds ==
    [][/\ last'.op = "add_chunks" =>
             \A before \in ListsOf(VideoIdSet(chunks)) :
                 \A after \in ListsOf(VideoIdSet(chunks')) :
                     /\ Len(after) >= Len(before)
                     /\ Len(after) = Len(before)
                           + Cardinality(IdsIn(last'.batch) \ IdsIn(chunks))
       /\ last'.op = "get_all_videos" =>
             /\ result'.status = "ok"
             /\ \A v \in IdsIn(chunks') :
                   Cardinality({ j \in 1..Len(result'.videos) :
                                   result'.videos[j] = v }) = 1
             /\ \A j \in 1..Len(result'.videos) :
                   result'.videos[j] \in IdsIn(chunks')]_vars

\* C12 witness: a chunk of a known video was inserted after a chunk of
\* that video
C12_Witness ==
    /\ last.op = "add_chunks"
    /\ Len(last.batch) = 1
    /\ Len(chunks) = 2
    /\ chunks[1].video_id = chunks[2].video_id

\* the number a digit character stands for
DigitValue(c) ==
    CASE c = "0" -> 0 [] c = "1" -> 1 [] c = "2" -> 2 [] c = "3" -> 3
      [] c = "4" -> 4 [] c = "5" -> 5 [] c = "6" -> 6 [] c = "7" -> 7
      [] c = "8" -> 8 [] c = "9" -> 9

IsDigit(c) == c \in {"0", "1", "2", "3", "4", "5", "6", "7", "8", "9"}

RECURSIVE NumberOf(_)
\* the number a sequence of digit characters reads as
NumberOf(ds) ==
    IF ds = <<>> THEN 0
    ELSE 10 * NumberOf(SubSeq(ds, 1, Len(ds) - 1)) + DigitValue(ds[Len(ds)])

\* C13: for whole seconds s >= 0 the string is the minutes floor(s / 60),
\* a colon and the seconds s mod 60, each in at least two digits, padded
\* with a zero when below ten and never with more; minutes are not folded
\* into hours; 125 seconds give "02:05".
C13_TimestampIsMinutesColonSeconds ==
    ts_formatted # None =>
        LET t == ts_formatted[1]
            n == Len(t)
            mm == SubSeq(t, 1, n - 3)
            ss == SubSeq(t, n - 1, n)
        IN /\ n >= 5
           /\ t[n - 2] = ":"
           /\ \A i \in 1..n : i # n - 2 => IsDigit(t[i])
           /\ NumberOf(ss) < 60
           /\ 60 * NumberOf(mm) + NumberOf(ss) = ts_seconds
           /\ Len(mm) > 2 => mm[1] # "0"
           /\ ts_seconds = 125 => t = <<"0", "2", ":", "0", "5">>

\* C13 witness: a time of more than 59 minutes was ts_formatted, and its
\* ts_seconds needed a leading zero
C13_Witness ==
    /\ ts_formatted # None
    /\ ts_seconds >= 3600
    /\ ts_seconds % 60 < 10

NonDecreasingEnds ==
    \A i \in 1..(Len(segments) - 1) : segments[i].end <= segments[i + 1].end

\* segment i lasts longer than chunk_duration
IsLong(i) == segments[i].end - segments[i].start > chunk_duration

\* a step that appends a chunk to the output
ChunkEmitted == Len(out') = Len(out) + 1

\* The segments whose texts make the chunk a step emits: every consumed
\* segment put one text in current_chunk_text, so they are the last
\* Len(current_chunk_text) segments consumed before the step.
EmittedSegments == (pos - Len(current_chunk_text) + 1)..pos

\* C14 as stated: for non-decreasing starts, a chunk that holds a segment
\* longer than chunk_duration holds that segment only.
C14_LongSegmentIsAlone ==
    [][(NonDecreasingStarts /\ ChunkEmitted) =>
          \A i \in EmittedSegments : IsLong(i) => EmittedSegments = {i}]_vars

\* C14 amended: for non-decreasing starts and non-decreasing ends, a chunk
\* that holds a segment longer than chunk_duration holds that segment only.
C14_LongSegmentIsAloneWhenEndsGrow ==
    [][(NonDecreasingStarts /\ NonDecreasingEnds /\ ChunkEmitted) =>
          \A i \in EmittedSegments : IsLong(i) => EmittedSegments = {i}]_vars

\* C14 witness: a transcript of three segments with non-decreasing starts
\* and ends, the second one long, was cut into three chunks
C14_Witness ==
    /\ pc = "done"
    /\ NonDecreasingStarts
    /\ NonDecreasingEnds
    /\ Len(segments) = 3
    /\ IsLong(2)
    /\ Len(out) = 3

EndsAfterStarts ==
    \A i \in 1..Len(segments) : segments[i].start <= segments[i].end

\* a step that adds a segment to a chunk that already holds one
SegmentJoinsChunk ==
    /\ current_chunk_text # <<>>
    /\ Len(current_chunk_text') = Len(current_chunk_text) + 1

\* C16: chunk_transcript groups N segments into M <= N chunks, each holding
\* at least one segment; a segment that joins a chunk after the chunk's first
\* segment ends at most chunk_duration after the chunk's start; and for
\* non-decreasing starts with end >= start in every segment, every chunk
\* returned has start_time <= end_time.
C16_ChunksSpanAtMostDuration ==
    [][/\ SegmentJoinsChunk =>
            segments[pos + 1].end - current_start_time <= chunk_duration
       /\ ChunkEmitted =>
            /\ Cardinality(EmittedSegments) >= 1
            /\ out'[Len(out')].start_time = current_start_time
       /\ pc' = "done" =>
            /\ Len(out') <= Len(segments)
            /\ (NonDecreasingStarts /\ EndsAfterStarts) =>
                  \A k \in 1..Len(out') : out'[k].start_time <= out'[k].end_time]_vars

\* C16 witness: three well-formed segments were grouped into two chunks, so
\* one chunk holds a segment that joined it after its first one
C16_Witness ==
    /\ pc = "done"
    /\ NonDecreasingStarts
    /\ EndsAfterStarts
    /\ Len(segments) = 3
    /\ Len(out) = 2
    /\ \E k \in 1..2 : out[k].start_time < out[k].end_time

\* C15: chunks are copied in on insertion, so after add_chunks returns a
\* caller changing the chunk objects it passed (here: embed_chunks setting
\* their embedding) changes the result of no later search, search_by_video,
\* get_video_summary or get_all_videos call.
C15_CallerMutationIsInvisible ==
    [][last'.op = "embed_chunks" =>
          /\ \A q \in Queries, k \in 1..MaxK :
                SearchOutcomes(q, k)' = SearchOutcomes(q, k)
          /\ \A v \in VideoIds, q \in Queries, k \in 1..MaxK :
                SearchByVideoOutcomes(v, q, k)' = SearchByVideoOutcomes(v, q, k)
          /\ \A v \in VideoIds : VideoSummary(v)' = VideoSummary(v)
          /\ VideoIdSet(chunks') = VideoIdSet(chunks)]_vars

====
